---- MODULE Spec2Model ----
(***************************************************************************)
(* Model of cuda-wsl-installer:                                            *)
(*   scripts/benchmarks/run_cuda_samples.py  (benchmark runner and the     *)
(*                                            JSON leaderboard upsert)     *)
(*   scripts/cuda_install.py                 (compute capability -> CUDA   *)
(*                                            version, apt installation)   *)
(*                                                                         *)
(* Encodings.                                                              *)
(*  - A score is a Python float; only its order matters to the code, so a  *)
(*    finite score is a natural number here.  float('inf'), the sort key   *)
(*    of an entry without a "score" key, is a separate key rank.           *)
(*  - A handle string is [at, id]: whether it starts with '@', and which   *)
(*    name follows.  id 0 is "Anonymous"; NoHandle is a dict without the   *)
(*    "handle" key (dict.get gives None).                                  *)
(*  - The leaderboard file is its parsed JSON value: kind "absent" (no     *)
(*    file), "invalid" (not JSON), one of the non-array JSON kinds, or     *)
(*    "array" with items.  json.dump followed by json.load gives back an   *)
(*    equal list of dicts (keys are strings, floats are written by repr).  *)
(*  - An array element is [obj, handle, sk, score, gpu]; obj = FALSE is a  *)
(*    JSON value that is not an object; sk says whether "score" is a       *)
(*    number ("num"), JSON null ("null") or a missing key ("absent").      *)
(***************************************************************************)
EXTENDS Integers, Sequences, FiniteSets, TLC

VARIABLES
    file,        \* results/hacker_leaderboard_cuda_samples.json
    best,        \* history: handle -> lowest score ever passed to leaderboard_main
    call,        \* arguments and environment of the last leaderboard_main call
    outcome,     \* how the last leaderboard_main call ended ("ok" or the exception)
    nops,        \* number of leaderboard_main calls made
    result,      \* BenchmarkResult of the last run_numba_cuda_kernel
    pc,          \* concurrent runs: where each process is in leaderboard_main
    mem,         \* concurrent runs: each process's local variable `scores`
    parg,        \* concurrent runs: each process's handle, avg and gpu_info
    overlap,     \* history: a process read the file while another held a stale copy
    compute_cap, \* get_required_cuda_version: its argument
    cap_from,    \* history: the major and minor the argument was written from
    required,    \* get_required_cuda_version: its result ("" before the call)
    cuda_version,\* install_cuda_apt: its argument
    apt_pc,      \* install_cuda_apt: the command it is about to run, or how it ended
    keyring,     \* whether cuda-keyring_1.1-1_all.deb exists in the working directory
    attempted,   \* install_cuda_apt: the set `attempted`
    attempts,    \* history: each `apt-get install` run, its package and exit code, in order
    position,    \* install_cuda_apt: index of the loop in package_candidates
    last_error,  \* install_cuda_apt: `last_error`
    apt_out      \* install_cuda_apt: the path returned or the exception raised

lbVars == <<file, best, call, outcome, nops, result>>
concVars == <<pc, mem, parg, overlap>>
resVars == <<compute_cap, cap_from, required>>
aptVars == <<cuda_version, apt_pc, keyring, attempted, attempts, position, last_error, apt_out>>
vars == <<lbVars, concVars, resVars, aptVars>>

\* ---------------------------------------------------------------- bounds
MaxOps == 3
MaxAnyOps == 1
MaxRuns == 2
MaxUser == 1
MaxDuration == 3
MaxInitLen == 2
MaxMajor == 12
MaxMinor == 9

\* [:100] in leaderboard_main
Cap == 100

\* -------------------------------------------------------- values
Anonymous == [at |-> TRUE, id |-> 0]
NoHandle == [at |-> FALSE, id |-> -1]
NonObject == [obj |-> FALSE, handle |-> NoHandle, sk |-> "absent", score |-> 0, gpu |-> ""]
AbsentFile == [kind |-> "absent", items |-> <<>>]
ArrayFile(items) == [kind |-> "array", items |-> items]
OtherFile(kind) == [kind |-> kind, items |-> <<>>]

Min(S) == CHOOSE m \in S : \A x \in S : m <= x

\* ------------------------------------------ leaderboard_main, line by line

\* lines 97-102: git config user.name, '@' prefixed unless already there
github_handle(git) ==
    IF ~git.ok THEN Anonymous
    ELSE IF git.name.at THEN git.name
    ELSE [git.name EXCEPT !.at = TRUE]

\* lines 104-115
new_entry(h, avg, gpu_info) ==
    [obj |-> TRUE, handle |-> h, sk |-> "num", score |-> avg, gpu |-> gpu_info]

\* lines 119-123, mutated: an unparsable file is read as an empty list
LoadLenient(f) ==
    IF f.kind \in {"absent", "invalid"} THEN [err |-> "none", scores |-> ArrayFile(<<>>)]
    ELSE [err |-> "none", scores |-> f]

\* lines 119-123, mutated: the file is never read
LoadNothing(f) == [err |-> "none", scores |-> ArrayFile(<<>>)]

\* lines 119-123
Load(f) ==
    IF f.kind = "absent" THEN [err |-> "none", scores |-> ArrayFile(<<>>)]
    ELSE IF f.kind = "invalid" THEN [err |-> "JSONDecodeError", scores |-> f]
    ELSE [err |-> "none", scores |-> f]

\* line 126, mutated: never finds the handle
existing_index_none(scores, h) ==
    IF scores.kind # "array" THEN [err |-> "TypeError", idx |-> 0]
    ELSE [err |-> "none", idx |-> 0]

\* line 126: next((i for i, s in enumerate(scores) if s.get('handle') == h), None)
\* idx = 0 stands for None.  The generator stops at the first match, so an
\* element that is no dict raises only when it comes before any match.
existing_index(scores, h) ==
    IF scores.kind \in {"null", "number", "bool"} THEN [err |-> "TypeError", idx |-> 0]
    ELSE IF scores.kind \in {"string", "object"} THEN [err |-> "AttributeError", idx |-> 0]
    ELSE IF scores.kind \in {"string0", "object0"} THEN [err |-> "none", idx |-> 0]
    ELSE LET s == scores.items
             stop == {i \in DOMAIN s : ~s[i].obj \/ s[i].handle = h}
         IN IF stop = {} THEN [err |-> "none", idx |-> 0]
            ELSE IF ~s[Min(stop)].obj THEN [err |-> "AttributeError", idx |-> 0]
            ELSE [err |-> "none", idx |-> Min(stop)]

\* line 128, mutated: replaces on a tie too
BetterOrEqual(avg, old) == avg <= old

\* line 128: avg < scores[existing_index]['score']
Better(avg, old) == avg < old

\* lines 127-131, mutated: always appends
ReplaceOrAddAlways(scores, idx, entry) ==
    IF scores.kind # "array" THEN [err |-> "AttributeError", scores |-> scores]
    ELSE [err |-> "none", scores |-> ArrayFile(Append(scores.items, entry))]

\* lines 127-131
ReplaceOrAdd(scores, idx, entry) ==
    IF idx # 0 THEN
        LET old == scores.items[idx] IN
        IF old.sk = "absent" THEN [err |-> "KeyError", scores |-> scores]
        ELSE IF old.sk = "null" THEN [err |-> "TypeError", scores |-> scores]
        ELSE IF Better(entry.score, old.score)
             THEN [err |-> "none",
                   scores |-> ArrayFile([scores.items EXCEPT ![idx] = entry])]
             ELSE [err |-> "none", scores |-> scores]
    ELSE IF scores.kind # "array" THEN [err |-> "AttributeError", scores |-> scores]
    ELSE [err |-> "none", scores |-> ArrayFile(Append(scores.items, entry))]

RECURSIVE SortedNum(_, _)
\* the entries of s with a numeric score, in ascending score order, entries of
\* equal score in their order in s (sorted() is stable)
SortedNum(s, keys) ==
    IF keys = {} THEN <<>>
    ELSE LET m == Min(keys)
         IN SelectSeq(s, LAMBDA x : x.sk = "num" /\ x.score = m)
                \o SortedNum(s, keys \ {m})

\* line 133, mutated: no sort
SortedNot(s) == s

\* line 133: sorted(scores, key=lambda x: x.get("score", float('inf'))) on a
\* list that sorted() accepts: the numeric scores ascending, then the entries
\* without a "score" key (key float('inf')); a list of one is not compared at all
Sorted(s) ==
    IF Len(s) <= 1 THEN s
    ELSE SortedNum(s, {s[i].score : i \in {j \in DOMAIN s : s[j].sk = "num"}})
             \o SelectSeq(s, LAMBDA x : x.sk = "absent")

\* line 133, mutated: [:100] taken from the wrong end
TruncateTail(s) == IF Len(s) <= Cap THEN s ELSE SubSeq(s, Len(s) - Cap + 1, Len(s))

\* line 133: [:100]
Truncate(s) == IF Len(s) <= Cap THEN s ELSE SubSeq(s, 1, Cap)

\* line 133: the key function runs on every element first (a non-dict has no
\* .get); comparing None with anything raises TypeError, and every element of
\* a list of two or more is compared at least once.
SortAndCap(scores) ==
    LET s == scores.items IN
    IF \E i \in DOMAIN s : ~s[i].obj THEN [err |-> "AttributeError", scores |-> scores]
    ELSE IF Len(s) >= 2 /\ \E i \in DOMAIN s : s[i].sk = "null"
         THEN [err |-> "TypeError", scores |-> scores]
    ELSE [err |-> "none", scores |-> ArrayFile(Truncate(Sorted(s)))]

\* lines 125-133 on the list that was loaded: the list to write, or the exception
Update(loaded, h, avg, gpu_info) ==
    LET ex == existing_index(loaded, h) IN
    IF ex.err # "none" THEN [err |-> ex.err, scores |-> loaded]
    ELSE LET ra == ReplaceOrAdd(loaded, ex.idx, new_entry(h, avg, gpu_info)) IN
    IF ra.err # "none" THEN [err |-> ra.err, scores |-> loaded]
    ELSE SortAndCap(ra.scores)

\* lines 117-138: the file after the call and how the call ended; the file is
\* opened for writing (line 135) only after every step before it succeeded
Upsert(f, h, avg, gpu_info) ==
    LET ld == Load(f) IN
    IF ld.err # "none" THEN [err |-> ld.err, file |-> f]
    ELSE LET up == Update(ld.scores, h, avg, gpu_info) IN
    IF up.err # "none" THEN [err |-> up.err, file |-> f]
    ELSE [err |-> "ok", file |-> up.scores]

\* ------------------------------------------------------- inputs

\* a board that Cap calls of distinct users filled, scores spread over the
\* durations; user Cap holds its last place
PrefillEntry(i) ==
    [obj |-> TRUE, handle |-> [at |-> TRUE, id |-> i], sk |-> "num",
     score |-> (i * MaxDuration) \div Cap, gpu |-> "GPU A"]
Prefilled == [i \in 1..Cap |-> PrefillEntry(i)]

\* what `git config user.name` prints: a name with or without '@', or failure
UserIds == Cap .. (Cap + MaxUser)
GitOutputs ==
    {[ok |-> TRUE, name |-> [at |-> (i % 2 = 0), id |-> i]] : i \in UserIds}
        \cup {[ok |-> FALSE, name |-> NoHandle]}
Durations == 0 .. MaxDuration
\* nvidia-smi on the machine that runs the benchmark; the entries already
\* stored come from "GPU A" machines
ThisGpu == {"GPU B"}

\* what a leaderboard file found on disk may hold
AnyElements ==
    {[obj |-> TRUE, handle |-> h, sk |-> "num", score |-> s, gpu |-> "GPU A"] :
        h \in {[at |-> TRUE, id |-> Cap], [at |-> FALSE, id |-> Cap + 1], NoHandle},
        s \in {0, MaxDuration}}
    \cup {[obj |-> TRUE, handle |-> [at |-> TRUE, id |-> Cap], sk |-> k, score |-> 0,
           gpu |-> "GPU A"] : k \in {"absent", "null"}}
    \cup {[obj |-> TRUE, handle |-> NoHandle, sk |-> k, score |-> 0,
           gpu |-> "GPU A"] : k \in {"absent", "null"}}
    \cup {NonObject}
AnyArrays ==
    UNION {[1..n -> AnyElements] : n \in 0..MaxInitLen}
AnyFiles ==
    {AbsentFile}
    \cup {OtherFile(k) : k \in {"invalid", "null", "number", "bool", "string0",
                                "string", "object0", "object"}}
    \cup {ArrayFile(a) : a \in AnyArrays}

NoCall == [handle |-> NoHandle, avg |-> 0, gpu |-> ""]
NoResult == [has_duration |-> FALSE, duration |-> 0, status |-> "none", message |-> ""]
Procs == {1, 2}

BestOf(items) == [h \in {items[i].handle : i \in DOMAIN items} |->
                    Min({items[i].score : i \in {j \in DOMAIN items : items[j].handle = h}})]

\* ------------------------------------- run_cuda_samples.py: the benchmark

\* lines 30-46; env.fails names the first step of the run that fails: the
\* import at lines 15-20, cuda.detect(), the device set-up or the kernel
ensure_cuda_available(env) ==
    IF env.fails = "import"
    THEN [has_duration |-> FALSE, duration |-> 0, status |-> "skipped",
          message |-> "numba.cuda not installed"]
    ELSE IF env.fails = "detect"
    THEN [has_duration |-> FALSE, duration |-> 0, status |-> "skipped",
          message |-> "CUDA runtime unavailable"]
    ELSE [has_duration |-> TRUE, duration |-> 0, status |-> "ready",
          message |-> "CUDA detected"]

\* lines 49-80; the device set-up of lines 56-64 (jit, to_device) is outside
\* the try: status "raised" is its exception leaving the function
run_numba_cuda_kernel(env) ==
    LET availability == ensure_cuda_available(env) IN
    IF availability.status # "ready" THEN availability
    ELSE IF env.fails = "device"
    THEN [has_duration |-> FALSE, duration |-> 0, status |-> "raised", message |-> ""]
    ELSE IF env.fails = "kernel"
    THEN [has_duration |-> FALSE, duration |-> 0, status |-> "skipped",
          message |-> "CUDA kernel execution failed"]
    ELSE [has_duration |-> TRUE, duration |-> env.duration, status |-> "completed",
          message |-> "Benchmark succeeded"]

\* line 157, mutated: every result is recorded
RecordsAlways(r) == TRUE

\* line 157: result.duration is not None
Records(r) == r.has_duration

Envs ==
    [fails : {"import", "detect", "device", "kernel", "nothing"}, duration : Durations]


\* --------------------------------- cuda_install.py: the version to install

DigitChar == <<"0", "1", "2", "3", "4", "5", "6", "7", "8", "9">>

RECURSIVE Decimal(_)
\* str(n) for n >= 0, as nvidia-smi writes the parts of compute_cap
Decimal(n) ==
    IF n < 10 THEN <<DigitChar[n + 1]>>
    ELSE Decimal(n \div 10) \o <<DigitChar[(n % 10) + 1]>>

\* "<major>.<minor>"
CapString(major, minor) == Decimal(major) \o <<".">> \o Decimal(minor)

\* s.split('.')[0]: the characters before the first '.', all of s without one
SplitFirst(s) ==
    LET dots == {i \in DOMAIN s : s[i] = "."}
    IN IF dots = {} THEN s ELSE SubSeq(s, 1, Min(dots) - 1)

RECURSIVE IntOf(_)
\* int(s) for a string of decimal digits
IntOf(s) ==
    IF Len(s) = 0 THEN 0
    ELSE 10 * IntOf(SubSeq(s, 1, Len(s) - 1))
             + (CHOOSE d \in 0..9 : DigitChar[d + 1] = s[Len(s)])

\* line 78, mutated: the boundary is off by one
IsLegacyStrict(major) == major < 7

\* line 78: major <= 7
IsLegacy(major) == major <= 7

\* lines 75-80
get_required_cuda_version(cc) ==
    IF cc.none THEN "12.0"
    ELSE LET major == IntOf(SplitFirst(cc.chars))
         IN IF IsLegacy(major) THEN "11.0"
            ELSE IF major >= 8 THEN "13.0"
            ELSE "12.0"

\* ------------------------------------- cuda_install.py: install_cuda_apt

\* cuda_version.replace('.', '-'), line 120
normalized(v) == [i \in DOMAIN v |-> IF v[i] = "." THEN "-" ELSE v[i]]

\* lines 122-127; a package name is the list of its characters after the
\* literal "cuda-toolkit"
package_candidates(v) ==
    << <<"cuda-toolkit", "-">> \o v,
       <<"cuda-toolkit", "-">> \o normalized(v),
       <<"cuda-toolkit", "-">> \o SplitFirst(v),
       <<"cuda-toolkit">> >>

\* lines 133-134, mutated: nothing is skipped
AlreadyAttemptedNever(package_name, done) == FALSE

\* lines 133-134: if package_name in attempted: continue
AlreadyAttempted(package_name, done) == package_name \in done

\* lines 153-156: the finally clause removes the keyring file if it exists
Cleanup(exists) == FALSE

NoError == [cmd |-> "", package |-> <<>>, code |-> 0]
NoOut == [kind |-> "none", error |-> NoError, package |-> <<>>, versioned |-> FALSE]
Raised(e) == [kind |-> "raised", error |-> e, package |-> <<>>, versioned |-> FALSE]
ExitCodes == {1, 100}
Versions ==
    { <<"1", "2", ".", "0">>, <<"1", "3", ".", "0">>, <<"1", "2">>,
      <<"1", "2", ".", "5", ".", "1">> }

\* --------------------------------------------------------- actions

\* the effect of one leaderboard_main(avg) call in the environment (git, gpu_info)
Recorded(git, avg, gpu_info) ==
    /\ LET h == github_handle(git)
           r == Upsert(file, h, avg, gpu_info)
       IN /\ file' = r.file
          /\ outcome' = r.err
          /\ call' = [handle |-> h, avg |-> avg, gpu |-> gpu_info]
          /\ best' = IF r.err # "ok" THEN best
                      ELSE IF h \in DOMAIN best
                        THEN [best EXCEPT ![h] = IF avg < @ THEN avg ELSE @]
                        ELSE best @@ (h :> avg)
    /\ nops' = nops + 1

\* leaderboard_main(avg), lines 82-138
leaderboard_main(limit, git, avg, gpu_info) ==
    /\ nops < limit
    /\ Recorded(git, avg, gpu_info)
    /\ UNCHANGED <<result, concVars, resVars, aptVars>>

\* main(), lines 140-175 (the --result-file copy of the result is another file)
main(env, git, gpu_info) ==
    LET r == run_numba_cuda_kernel(env) IN
    /\ result' = r
    /\ IF r.status # "raised" /\ Records(r)
       THEN /\ nops < MaxRuns
            /\ Recorded(git, r.duration, gpu_info)
       ELSE UNCHANGED <<file, best, call, outcome, nops>>
    /\ UNCHANGED <<concVars, resVars, aptVars>>

\* one process's lines 117-123: the file is read
ReadFile(p, git, avg, gpu_info) ==
    /\ pc[p] = "start"
    /\ LET ld == Load(file) IN
       /\ mem' = [mem EXCEPT ![p] = ld.scores]
       /\ pc' = [pc EXCEPT ![p] = IF ld.err = "none" THEN "loaded" ELSE ld.err]
    /\ parg' = [parg EXCEPT ![p] =
                   [handle |-> github_handle(git), avg |-> avg, gpu |-> gpu_info]]
    /\ overlap' = (overlap \/ \E q \in Procs \ {p} : pc[q] = "loaded")
    /\ UNCHANGED <<lbVars, resVars, aptVars>>

\* one process's lines 125-138: the list is updated in memory and written
WriteFile(p) ==
    /\ pc[p] = "loaded"
    /\ LET up == Update(mem[p], parg[p].handle, parg[p].avg, parg[p].gpu) IN
       /\ file' = IF up.err = "none" THEN up.scores ELSE file
       /\ pc' = [pc EXCEPT ![p] = IF up.err = "none" THEN "done" ELSE up.err]
       /\ mem' = [mem EXCEPT ![p] = up.scores]
    /\ UNCHANGED <<best, call, outcome, nops, result, parg, overlap, resVars, aptVars>>

\* get_required_cuda_version(compute_cap), lines 75-80
Resolve ==
    /\ required = ""
    /\ required' = get_required_cuda_version(compute_cap)
    /\ UNCHANGED <<compute_cap, cap_from, lbVars, concVars, aptVars>>

\* line 115: run_cmd(wget) before the try; a failure leaves the function at once
AptWget(ok, code) ==
    /\ apt_pc = "wget"
    /\ IF ok
       THEN /\ keyring' = TRUE
            /\ apt_pc' = "dpkg"
            /\ apt_out' = apt_out
       ELSE /\ keyring' = keyring
            /\ apt_pc' = "raised"
            /\ apt_out' = Raised([cmd |-> "wget", package |-> <<>>, code |-> code])
    /\ UNCHANGED <<cuda_version, attempted, attempts, position, last_error,
                   lbVars, concVars, resVars>>

\* lines 117-118: dpkg -i, then apt-get update; a failure of either raises
\* through the finally clause
AptSetup(cmd, next, ok, code) ==
    /\ apt_pc = cmd
    /\ IF ok
       THEN /\ apt_pc' = next
            /\ UNCHANGED <<keyring, apt_out>>
       ELSE /\ apt_pc' = "raised"
            /\ apt_out' = Raised([cmd |-> cmd, package |-> <<>>, code |-> code])
            /\ keyring' = Cleanup(keyring)
    /\ UNCHANGED <<cuda_version, attempted, attempts, position, last_error,
                   lbVars, concVars, resVars>>

\* lines 132-148: one turn of the loop over package_candidates
AptInstall(ok, code, path_exists) ==
    /\ apt_pc = "install"
    /\ position <= Len(package_candidates(cuda_version))
    /\ LET package_name == package_candidates(cuda_version)[position] IN
       IF AlreadyAttempted(package_name, attempted)
       THEN /\ position' = position + 1
            /\ UNCHANGED <<attempted, attempts, last_error, apt_pc, apt_out, keyring>>
       ELSE /\ attempted' = attempted \cup {package_name}
            /\ attempts' = Append(attempts, [package |-> package_name,
                                             code |-> IF ok THEN 0 ELSE code])
            /\ IF ok
               THEN /\ apt_pc' = "returned"
                    /\ apt_out' = [kind |-> "returned", error |-> NoError,
                                   package |-> package_name,
                                   versioned |-> (package_name # <<"cuda-toolkit">>
                                                    /\ path_exists)]
                    /\ keyring' = Cleanup(keyring)
                    /\ UNCHANGED <<position, last_error>>
               ELSE /\ last_error' = [cmd |-> "install", package |-> package_name,
                                      code |-> code]
                    /\ position' = position + 1
                    /\ UNCHANGED <<apt_pc, apt_out, keyring>>
    /\ UNCHANGED <<cuda_version, lbVars, concVars, resVars>>

\* lines 150-156: the loop ran out of candidates
AptExhausted ==
    /\ apt_pc = "install"
    /\ position > Len(package_candidates(cuda_version))
    /\ apt_pc' = "raised"
    /\ apt_out' = IF last_error # NoError THEN Raised(last_error)
                  ELSE Raised([cmd |-> "RuntimeError", package |-> <<>>, code |-> 0])
    /\ keyring' = Cleanup(keyring)
    /\ UNCHANGED <<cuda_version, attempted, attempts, position, last_error,
                   lbVars, concVars, resVars>>

\* ------------------------------------------------------ specifications
ResIdle ==
    /\ compute_cap = [none |-> TRUE, chars |-> <<>>]
    /\ cap_from = <<0, 0>>
    /\ required = ""

AptIdle ==
    /\ cuda_version = <<>>
    /\ apt_pc = "idle"
    /\ keyring = FALSE
    /\ attempted = {}
    /\ attempts = <<>>
    /\ position = 1
    /\ last_error = NoError
    /\ apt_out = NoOut

FileIdle ==
    /\ file = AbsentFile
    /\ best = <<>>
    /\ call = NoCall
    /\ outcome = "none"
    /\ nops = 0
    /\ result = NoResult
ConcIdle ==
    /\ pc = [p \in Procs |-> "start"]
    /\ mem = [p \in Procs |-> ArrayFile(<<>>)]
    /\ parg = [p \in Procs |-> NoCall]
    /\ overlap = FALSE

LbIdle ==
    /\ call = NoCall
    /\ outcome = "none"
    /\ nops = 0
    /\ result = NoResult

\* the leaderboard, from no file, an empty one, or a full board
Init ==
    /\ file \in {AbsentFile, ArrayFile(<<>>), ArrayFile(Prefilled)}
    /\ best = BestOf(file.items)
    /\ LbIdle
    /\ ConcIdle
    /\ ResIdle
    /\ AptIdle

Next ==
    \E git \in GitOutputs, avg \in Durations, gpu_info \in ThisGpu :
        leaderboard_main(MaxOps, git, avg, gpu_info)

Spec == Init /\ [][Next]_vars

\* the leaderboard, from whatever the file holds, a full board included
InitAny ==
    /\ file \in AnyFiles \cup {ArrayFile(Prefilled)}
    /\ best = <<>>
    /\ LbIdle
    /\ ConcIdle
    /\ ResIdle
    /\ AptIdle

NextAny ==
    \E git \in GitOutputs, avg \in Durations, gpu_info \in ThisGpu :
        leaderboard_main(MaxAnyOps, git, avg, gpu_info)

SpecAny == InitAny /\ [][NextAny]_vars

\* the benchmark runner
InitMain ==
    /\ file \in {AbsentFile, ArrayFile(<<>>)}
    /\ best = <<>>
    /\ LbIdle
    /\ ConcIdle
    /\ ResIdle
    /\ AptIdle

NextMain ==
    \E env \in Envs, git \in GitOutputs, gpu_info \in ThisGpu :
        main(env, git, gpu_info)

SpecMain == InitMain /\ [][NextMain]_vars

\* two processes, each running leaderboard_main once
InitConc ==
    /\ file \in {AbsentFile, ArrayFile(<<>>),
                 ArrayFile(<<new_entry([at |-> TRUE, id |-> Cap], 1, "GPU A")>>)}
    /\ best = <<>>
    /\ LbIdle
    /\ ConcIdle
    /\ ResIdle
    /\ AptIdle

NextConc ==
    \E p \in Procs :
        \/ \E git \in GitOutputs, avg \in Durations, gpu_info \in ThisGpu :
               ReadFile(p, git, avg, gpu_info)
        \/ WriteFile(p)

SpecConc == InitConc /\ [][NextConc]_vars

\* get_required_cuda_version on nothing or on a well-formed "major.minor"
InitResolver ==
    /\ \/ /\ compute_cap = [none |-> TRUE, chars |-> <<>>]
          /\ cap_from = <<0, 0>>
       \/ \E major \in 0..MaxMajor, minor \in 0..MaxMinor :
              /\ compute_cap = [none |-> FALSE, chars |-> CapString(major, minor)]
              /\ cap_from = <<major, minor>>
    /\ required = ""
    /\ FileIdle
    /\ ConcIdle
    /\ AptIdle

NextResolver == Resolve

SpecResolver == InitResolver /\ [][NextResolver]_vars

\* install_cuda_apt(cuda_version), command by command
InitApt ==
    /\ cuda_version \in Versions
    /\ apt_pc = "wget"
    /\ keyring = FALSE
    /\ attempted = {}
    /\ attempts = <<>>
    /\ position = 1
    /\ last_error = NoError
    /\ apt_out = NoOut
    /\ FileIdle
    /\ ConcIdle
    /\ ResIdle

NextApt ==
    \E ok \in BOOLEAN, code \in ExitCodes :
        \/ AptWget(ok, code)
        \/ AptSetup("dpkg", "update", ok, code)
        \/ AptSetup("update", "install", ok, code)
        \/ \E path_exists \in BOOLEAN : AptInstall(ok, code, path_exists)
        \/ AptExhausted

SpecApt == InitApt /\ [][NextApt]_vars

\* ------------------------------------------------------------- claims
Handles(items) == {items[i].handle : i \in DOMAIN items}
EntryOf(items, h) == items[Min({i \in DOMAIN items : items[i].handle = h})]
LastCallEntry == new_entry(call.handle, call.avg, call.gpu)

\* C1: from an absent or empty file (or a board such calls built), after any
\* sequence of leaderboard_main calls no two stored entries have the same handle.
C1_OneEntryPerHandle ==
    Cardinality(Handles(file.items)) = Len(file.items)

\* C1 witness: two calls were made and the board holds one entry: both calls
\* were for the same handle.
C1_Witness ==
    /\ nops >= 2
    /\ Len(file.items) = 1

\* order of two stored entries by sort key: numbers ascending, then the
\* entries whose score is missing or null
InOrder(x, y) ==
    IF x.sk = "num" THEN (y.sk = "num" => x.score <= y.score) ELSE y.sk # "num"

\* C2: after a call that completes, the file holds its entries in
\* non-decreasing score order, the entries without a numeric score after
\* every entry with one.
C2_SortedNullsLast ==
    outcome = "ok" =>
        /\ file.kind = "array"
        /\ \A i, j \in DOMAIN file.items : i < j => InOrder(file.items[i], file.items[j])

\* C2 witness: a completed call on a file that held an entry without a score:
\* the new entry is stored before an entry of higher score, and the entry
\* without a score is last.
C2_Witness ==
    /\ outcome = "ok"
    /\ Len(file.items) >= 3
    /\ file.items[Len(file.items)].sk = "absent"
    /\ \E i \in DOMAIN file.items :
           /\ file.items[i] = LastCallEntry
           /\ i + 1 \in DOMAIN file.items
           /\ file.items[i + 1].sk = "num"
           /\ file.items[i + 1].score > call.avg

\* C3: the board never holds more than Cap entries; it holds one entry for
\* each of the Cap lowest-scoring handles ever recorded (all of them when
\* fewer), each with its handle's best score, and no handle left out has a
\* best score below a stored one.
C3_CapKeepsLowest ==
    LET s == file.items
        stored == Handles(s)
    IN /\ Len(s) <= Cap
       /\ Len(s) = IF Cardinality(DOMAIN best) < Cap THEN Cardinality(DOMAIN best) ELSE Cap
       /\ stored \subseteq DOMAIN best
       /\ \A i \in DOMAIN s : s[i].score = best[s[i].handle]
       /\ \A h \in (DOMAIN best) \ stored : \A i \in DOMAIN s : s[i].score <= best[h]

\* C3 witness: more than Cap distinct handles were recorded, the board holds
\* Cap entries, and the handle of the last call is among them.
C3_Witness ==
    /\ Cardinality(DOMAIN best) > Cap
    /\ Len(file.items) = Cap
    /\ nops > 0
    /\ call.handle \in Handles(file.items)

\* C4: a call for a handle the board already holds with score s stores the
\* new entry when avg < s and leaves the stored entry as it was otherwise.
C4_ReplaceIffBetter ==
    [][(nops' = nops + 1 /\ call'.handle \in Handles(file.items)) =>
          /\ call'.handle \in Handles(file'.items)
          /\ EntryOf(file'.items, call'.handle) =
                IF call'.avg < EntryOf(file.items, call'.handle).score
                THEN new_entry(call'.handle, call'.avg, call'.gpu)
                ELSE EntryOf(file.items, call'.handle)]_vars

\* C4 witness: after a call, the board holds the call's handle with the
\* call's score but another machine's entry: the tie kept the older entry.
C4_Witness ==
    /\ nops > 0
    /\ \E i \in DOMAIN file.items :
           /\ file.items[i].handle = call.handle
           /\ file.items[i].score = call.avg
           /\ file.items[i].gpu # call.gpu

\* C5: repeating the last call changes nothing: it ends the same way and
\* leaves the same file.
C5_Idempotent ==
    nops > 0 =>
        Upsert(file, call.handle, call.avg, call.gpu) = [err |-> outcome, file |-> file]

\* C5 witness: a completed call whose entry is stored in a board of several
\* entries (the repeat finds it and its score is not strictly lower).
C5_Witness ==
    /\ outcome = "ok"
    /\ Len(file.items) >= 2
    /\ \E i \in DOMAIN file.items : file.items[i] = LastCallEntry

\* the file exists and is not JSON, or not an array of objects
Malformed(f) ==
    \/ f.kind \notin {"absent", "array"}
    \/ \E i \in DOMAIN f.items : ~f.items[i].obj

\* C7: a call on a malformed file ends in an exception and leaves the file
\* as it was.
C7_MalformedFileKept ==
    [][(nops' = nops + 1 /\ Malformed(file)) =>
          (outcome' \notin {"ok", "none"} /\ file' = file)]_vars

\* C7 witness: a call failed on an array whose first element is the caller's
\* own entry and whose second element is not an object.
C7_Witness ==
    /\ nops > 0
    /\ outcome = "AttributeError"
    /\ Len(file.items) = 2
    /\ file.items[1].obj
    /\ file.items[1].handle = call.handle
    /\ ~file.items[2].obj

AllDone == \A p \in Procs : pc[p] = "done"
Kept(p) ==
    \E i \in DOMAIN file.items :
        /\ file.items[i].handle = parg[p].handle
        /\ file.items[i].score <= parg[p].avg

\* C8: when the two calls did not overlap (neither read the file while the
\* other held a copy it had yet to write), the final file holds both updates.
C8_SerialKeepsBoth ==
    (AllDone /\ ~overlap) => \A p \in Procs : Kept(p)

\* C8 witness: both calls are done, they overlapped, and the update of one of
\* them is not in the file: the last writer won.
C8_Witness ==
    /\ AllDone
    /\ overlap
    /\ \E p \in Procs : ~Kept(p) /\ \A q \in Procs \ {p} : Kept(q)

\* C9: a run whose result has no duration (skipped, or an exception) calls
\* leaderboard_main not at all and leaves the file as it was; every call made
\* carries the duration of a completed benchmark.
C9_NoDurationNoUpsert ==
    [][/\ ~result'.has_duration => (file' = file /\ nops' = nops /\ call' = call)
       /\ nops' # nops =>
             /\ result'.status = "completed"
             /\ call'.avg = result'.duration
             /\ \A i \in DOMAIN file'.items : file'.items[i].sk = "num"]_vars

\* C9 witness: the last run was skipped after earlier runs had recorded scores.
C9_Witness ==
    /\ result.status = "skipped"
    /\ nops > 0
    /\ Len(file.items) > 0

\* C6: get_required_cuda_version gives "12.0" for no compute capability,
\* "11.0" for a "major.minor" with major <= 7 and "13.0" with major >= 8, and
\* nothing else.
C6_DecisionTable ==
    required # "" =>
        /\ required \in {"11.0", "12.0", "13.0"}
        /\ compute_cap.none => required = "12.0"
        /\ (~compute_cap.none /\ cap_from[1] <= 7) => required = "11.0"
        /\ (~compute_cap.none /\ cap_from[1] >= 8) => required = "13.0"

\* C6 witness: a two-digit major was resolved to "13.0".
C6_Witness ==
    /\ required = "13.0"
    /\ ~compute_cap.none
    /\ cap_from[1] >= 10

RECURSIVE Distinct(_)
\* the elements of a sequence in order of first occurrence
Distinct(s) ==
    IF s = <<>> THEN <<>>
    ELSE LET front == Distinct(SubSeq(s, 1, Len(s) - 1))
         IN IF \E i \in DOMAIN front : front[i] = s[Len(s)] THEN front
            ELSE Append(front, s[Len(s)])

Wanted == Distinct(package_candidates(cuda_version))
AptEnded == apt_pc \in {"returned", "raised"}

\* what C10 says of the order of the attempts, of a return, and of the keyring
AptOrderAndReturn ==
    /\ Len(attempts) <= Len(Wanted)
    /\ \A i \in DOMAIN attempts : attempts[i].package = Wanted[i]
    /\ \A i \in DOMAIN attempts : i < Len(attempts) => attempts[i].code # 0
    /\ apt_pc = "returned" =>
           /\ attempts # <<>>
           /\ attempts[Len(attempts)].code = 0
           /\ apt_out.package = attempts[Len(attempts)].package
    /\ (AptEnded /\ apt_out.error.cmd # "wget") => ~keyring

AllFailed ==
    /\ Len(attempts) = Len(Wanted)
    /\ \A i \in DOMAIN attempts : attempts[i].code # 0
    /\ apt_out.error = [cmd |-> "install",
                        package |-> attempts[Len(attempts)].package,
                        code |-> attempts[Len(attempts)].code]

\* C10 as stated: the candidates are tried in order, each distinct one at
\* most once, the first success returns, the function fails only after every
\* distinct candidate failed, with the last attempt's error, and the keyring
\* file is gone on every exit after its download.  The failure is read here
\* as one after the keyring download, the reading kindest to the claim.
C10_AsStated ==
    /\ AptOrderAndReturn
    /\ (apt_pc = "raised" /\ apt_out.error.cmd # "wget") => AllFailed

\* C10 amended: as stated, except that a failure of the keyring download, of
\* dpkg -i or of apt-get update ends the function at once, before any
\* candidate is attempted.
C10_AptInstall ==
    /\ AptOrderAndReturn
    /\ apt_pc = "raised" =>
           IF apt_out.error.cmd \in {"wget", "dpkg", "update"}
           THEN attempts = <<>>
           ELSE AllFailed

\* C10 witness: every candidate failed for a version without a dot, whose
\* four candidates are only two distinct packages.
C10_Witness ==
    /\ apt_pc = "raised"
    /\ apt_out.error.cmd = "install"
    /\ Len(attempts) = 2
    /\ Len(package_candidates(cuda_version)) = 4

====
